---- MODULE Spec2Model ----
(***************************************************************************)
(* Request authentication (CSRF-session and stateless HMAC variants), the  *)
(* client request signer with its retry, and the streaming reassembly of   *)
(* the chat hook of managed-inference-chat.                                *)
(*                                                                         *)
(* Time is counted in units of five minutes, so that the token lifetime of *)
(* ten minutes is 2 and the five-minute timestamp window is 1.  Strings    *)
(* are sequences of one-character strings; a character of an HMAC digest   *)
(* is an opaque symbol naming its key, its message and its position.       *)
(***************************************************************************)
EXTENDS Integers, Sequences, FiniteSets, TLC

VARIABLES
    now,            \* Date.now() of the server, in units of five minutes
    sessToken,      \* request.session.csrfToken of the client's session
    sessIssuedAt,   \* history: the time generateCSRFToken issued sessToken
    cookieCsrf,     \* the browser's csrf-token cookie
    cookieSid,      \* the browser holds a sessionId cookie
    lastCsrf,       \* the last protected request of the CSRF variant and its outcome
    prevToken,      \* history: the token an earlier csrf-init stored in this session
    revokedToken,   \* history: the token the session held when it was last destroyed
    freshUsed,      \* history: the token of the latest csrf-init has been presented
    codecIn,        \* input of the token verification stage taken alone
    codecOut,       \* its outcome
    usedNonces,     \* the used-nonce set of the HMAC authenticator
    nextClear,      \* the time the nonce cleanup timer fires next
    allowedBy,      \* history: per nonce, the headers allowed since the last clear
    lastHmac,       \* the last request of the HMAC variant and what became of it
    accepted,       \* history: how often each signed request was allowed (where counted)
    initPromise,    \* apiSecurity: "null", "pending", "resolved" or "rejected"
    isRetrying,     \* apiSecurity: the retry guard flag
    cookie,         \* document.cookie holds a csrf-token
    pc,             \* the await the chat request in flight is suspended at, or "idle"
    resp,           \* the response whose body is being read as JSON
    bodyUsed,       \* secureRequest has consumed the body of the response it returned
    nClears,        \* history: clearTokenCache calls of the secureRequest call
    nInits,         \* history: /api/csrf-init requests started by the call
    nSends,         \* history: requests to the protected URL started by the call
    messages,       \* useCustomChat: the message list
    status,         \* useCustomChat: "idle", "loading" or "error"
    error,          \* useCustomChat: the error message, or "null"
    abortRef,       \* abortControllerRef.current is not null
    aborted,        \* the signal of the request's AbortController is aborted
    accumulator,    \* accumulatedContent, accumulatedReasoning, seenToolCallIds, toolMessagesByCallId
    nReq,           \* history: chat requests started
    nFrames,        \* history: frames read over all responses
    stopAt,         \* history: the await at which stop() aborted the request, or "none"
    msgsAtStop,     \* history: the message list when stop() was called
    respBase,       \* history: the message list right after the user message was appended
    deltas,         \* history: the content deltas of the response's frames, joined
    pure,           \* history: every frame of the response so far carried content only
    nApplied,       \* history: frames of the response handled so far
    lastFrame,      \* history: the frame handled last
    clean,          \* history: nothing but an abort has failed in this request
    initPromiseId,  \* concurrent calls: which init request initPromise holds, 0 for null
    inits,          \* concurrent calls: the /api/csrf-init requests made, each with its state
    callPc,         \* concurrent calls: where each secureRequest call is suspended
    callAwaits,     \* concurrent calls: the init request each call awaits
    wire,           \* line buffer: the bytes of the response body
    delivered,      \* line buffer: how many of them reader.read() has delivered
    pending,        \* line buffer: bytes the TextDecoder holds back (stream: true)
    buffer,         \* line buffer: the trailing partial line
    handled,        \* line buffer: the data of the 'data:' lines handled so far
    midLine,        \* history: a read has ended inside a line
    midChar,        \* history: a read has ended inside a character
    reqPc,          \* overlapping requests: each call is "idle", in "flight" or "done"
    ctrlRef,        \* overlapping requests: whose controller abortControllerRef holds, 0 for null
    ctrlAborted,    \* overlapping requests: the requests whose controller is aborted
    reqAcc,         \* overlapping requests: the accumulators of each call
    lastBody        \* overlapping requests: the messages of the last request body built

csrfVars == <<sessToken, sessIssuedAt, cookieCsrf, cookieSid, lastCsrf, prevToken,
             revokedToken, freshUsed>>
codecVars == <<codecIn, codecOut>>
hmacVars == <<usedNonces, nextClear, allowedBy, lastHmac, accepted>>
signerVars == <<initPromise, isRetrying, cookie, pc, resp, bodyUsed, nClears, nInits, nSends>>
hookVars == <<messages, status, error, abortRef, aborted, accumulator>>
histVars == <<nReq, nFrames, stopAt, msgsAtStop, respBase, deltas, pure, nApplied, lastFrame>>
callVars == <<initPromiseId, inits, callPc, callAwaits>>
lineVars == <<wire, delivered, pending, buffer, handled, midLine, midChar>>
overlapVars == <<reqPc, ctrlRef, ctrlAborted, reqAcc, lastBody>>
clientVars == <<signerVars, hookVars, histVars, clean, callVars, lineVars, overlapVars>>
vars == <<now, csrfVars, codecVars, hmacVars, clientVars>>

----------------------------------------------------------------------------
(* Bounds and program constants *)

StartTime == 10
MaxElapsed == 4
MaxRequests == 2
MaxFrames == 3
MaxCalls == 2
MaxPieces == 3
SigLen == 2
TOKEN_EXPIRY == 2
MAX_TIMESTAMP_DIFF == 1
NONCE_CLEANUP_INTERVAL == 2
NaN == 0 - 1

CSRF_SECRET == "csrf-secret"
OtherSecret == "other-secret"
API_SECRET == "api-secret"
APP_ID == <<"mia-chat-app">>
Nonces == {<<"n1">>, <<"n2">>}
Rands == {<<"a">>, <<"b">>}
WideChar == "U+FFFD"
TamperChars == {"f", "z", WideChar}

----------------------------------------------------------------------------
(* Strings *)

Digits == <<"0", "1", "2", "3", "4", "5", "6", "7", "8", "9">>

IsDigit(c) == \E i \in 1..10 : Digits[i] = c

DigitValue(c) == (CHOOSE i \in 1..10 : Digits[i] = c) - 1

RECURSIVE DecStr(_)
DecStr(n) == IF n < 10 THEN <<Digits[n + 1]>>
             ELSE DecStr(n \div 10) \o <<Digits[(n % 10) + 1]>>

RECURSIVE ParseDigits(_, _)
ParseDigits(s, acc) ==
    IF s = <<>> \/ ~IsDigit(Head(s)) THEN acc
    ELSE ParseDigits(Tail(s), acc * 10 + DigitValue(Head(s)))

ParseInt(s) == IF s = <<>> \/ ~IsDigit(Head(s)) THEN NaN ELSE ParseDigits(s, 0)

CharBytes(c) == IF c = WideChar THEN 3 ELSE 1

RECURSIVE ByteLen(_)
ByteLen(s) == IF s = <<>> THEN 0 ELSE CharBytes(Head(s)) + ByteLen(Tail(s))

RECURSIVE SplitFrom(_, _, _)
SplitFrom(s, cur, acc) ==
    IF s = <<>> THEN Append(acc, cur)
    ELSE IF Head(s) = ":" THEN SplitFrom(Tail(s), <<>>, Append(acc, cur))
    ELSE SplitFrom(Tail(s), Append(cur, Head(s)), acc)

Split(s) == SplitFrom(s, <<>>, <<>>)

HmacHex(secret, payload) ==
    [i \in 1..SigLen |-> ToString(<<"hmac", secret, payload, i>>)]

TimingSafeEqualThrows(a, b) == ByteLen(a) # ByteLen(b)

NeverDiffers(a, b) == TRUE

TimingSafeEqual(a, b) == a = b

----------------------------------------------------------------------------
(* Token codec *)

NoToken == [present |-> FALSE, b64 |-> <<>>]

Base64Encode(s) == [present |-> TRUE, b64 |-> s]

Base64Decode(t) == t.b64

Base64Len(t) == 4 * ((ByteLen(t.b64) + 2) \div 3)

TokenString(ts, rand, sig) == DecStr(ts) \o <<":">> \o rand \o <<":">> \o sig

GenerateWithOtherSecret(ts, rand) ==
    LET payload == DecStr(ts) \o <<":">> \o rand
    IN  Base64Encode(payload \o <<":">> \o HmacHex(OtherSecret, payload))

GenerateCSRFToken(ts, rand) ==
    LET payload == DecStr(ts) \o <<":">> \o rand
        signature == HmacHex(CSRF_SECRET, payload)
    IN  Base64Encode(payload \o <<":">> \o signature)

----------------------------------------------------------------------------
(* CSRF-session authenticator *)

Allow == [kind |-> "allow", error |-> "", code |-> ""]

Deny(message, code) == [kind |-> "deny", error |-> message, code |-> code]

Throw(message) == [kind |-> "throw", error |-> message, code |-> ""]

NoOutcome == [kind |-> "none", error |-> "", code |-> ""]

TokenExpiredGe(t, tokenTime) == tokenTime # NaN /\ t - tokenTime >= TOKEN_EXPIRY

TokenExpired(t, tokenTime) == tokenTime # NaN /\ t - tokenTime > TOKEN_EXPIRY

SignatureEqualFirstChar(signature, expected) ==
    signature # <<>> /\ signature[1] = expected[1]

SignatureEqual(signature, expected) == TimingSafeEqual(signature, expected)

\* the try block of verifyCSRFToken: decode, split, signature, expiry
VerifyTokenStage(clientToken, t) ==
    LET decoded == Base64Decode(clientToken)
        parts == Split(decoded)
    IN  IF Len(parts) # 3 THEN Deny("Invalid CSRF token format", "csrf_invalid")
        ELSE LET timestamp == parts[1]
                 randomValue == parts[2]
                 signature == parts[3]
                 payload == timestamp \o <<":">> \o randomValue
                 expectedSignature == HmacHex(CSRF_SECRET, payload)
             IN  IF TimingSafeEqualThrows(signature, expectedSignature)
                 THEN Deny("Invalid CSRF token", "csrf_invalid")
                 ELSE IF ~SignatureEqual(signature, expectedSignature)
                 THEN Deny("Invalid CSRF token signature", "csrf_invalid")
                 ELSE IF TokenExpired(t, ParseInt(timestamp))
                 THEN Deny("CSRF token expired", "csrf_expired")
                 ELSE Allow

\* verifyCSRFToken: the outcome for a header token, the request's session and the time
VerifyCSRFToken(clientToken, hasSession, sessionToken, t) ==
    IF ~clientToken.present THEN Deny("CSRF token missing", "csrf_missing")
    ELSE IF ~hasSession THEN Deny("No session found", "csrf_invalid")
    ELSE IF ~sessionToken.present THEN Deny("No CSRF token in session", "csrf_invalid")
    ELSE IF Base64Len(clientToken) # Base64Len(sessionToken)
    THEN Throw("RangeError: Input buffers must have the same byte length")
    ELSE IF ~TimingSafeEqual(clientToken.b64, sessionToken.b64)
    THEN Deny("CSRF token mismatch", "csrf_mismatch")
    ELSE VerifyTokenStage(clientToken, t)

ReplyKeepingSession(out) ==
    CASE out.kind = "deny" ->
            [status |-> 403, destroyed |-> FALSE, clearedCsrf |-> TRUE,
             clearedSid |-> TRUE, requiresReauth |-> TRUE]
      [] out.kind = "throw" ->
            [status |-> 500, destroyed |-> FALSE, clearedCsrf |-> FALSE,
             clearedSid |-> FALSE, requiresReauth |-> FALSE]
      [] OTHER ->
            [status |-> 200, destroyed |-> FALSE, clearedCsrf |-> FALSE,
             clearedSid |-> FALSE, requiresReauth |-> FALSE]

\* what the reply and the session look like after the outcome: clearSessionAndSendError
\* for a denial, the framework's error reply for an exception, the handler otherwise
ReplyFor(out) ==
    CASE out.kind = "deny" ->
            [status |-> 403, destroyed |-> TRUE, clearedCsrf |-> TRUE,
             clearedSid |-> TRUE, requiresReauth |-> TRUE]
      [] out.kind = "throw" ->
            [status |-> 500, destroyed |-> FALSE, clearedCsrf |-> FALSE,
             clearedSid |-> FALSE, requiresReauth |-> FALSE]
      [] OTHER ->
            [status |-> 200, destroyed |-> FALSE, clearedCsrf |-> FALSE,
             clearedSid |-> FALSE, requiresReauth |-> FALSE]

Times == StartTime..(StartTime + MaxElapsed)

ReplaceAt(s, i, c) == [s EXCEPT ![i] = c]

\* the token with character i of its signature segment replaced by c
TamperSig(tok, i, c) ==
    Base64Encode(ReplaceAt(tok.b64, Len(tok.b64) - SigLen + i, c))

Shorter(tok) == Base64Encode(SubSeq(tok.b64, 1, Len(tok.b64) - 1))

Longer(tok) == Base64Encode(tok.b64 \o <<"f", "f", "f">>)

Forged(ts, rand) ==
    LET payload == DecStr(ts) \o <<":">> \o rand
    IN  Base64Encode(payload \o <<":">> \o HmacHex(OtherSecret, payload))

\* the header values a client may present at time t when the session holds tok
HeaderInputs(t, tok) ==
    {NoToken}
    \cup {GenerateCSRFToken(ts, r) : ts \in StartTime..t, r \in Rands}
    \cup {Forged(t, r) : r \in Rands}
    \cup (IF tok.present
          THEN {TamperSig(tok, i, c) : i \in 1..SigLen, c \in TamperChars}
               \cup {Shorter(tok), Longer(tok)}
          ELSE {})

NoCsrfRequest ==
    [hdr |-> NoToken, sess |-> NoToken, issuedAt |-> 0, at |-> 0, out |-> NoOutcome,
     reply |-> ReplyFor(NoOutcome), sessAfter |-> NoToken, prev |-> NoToken,
     revoked |-> NoToken]

InitCsrfVars ==
    /\ sessToken = NoToken
    /\ sessIssuedAt = 0
    /\ cookieCsrf = NoToken
    /\ cookieSid = FALSE
    /\ lastCsrf = NoCsrfRequest
    /\ prevToken = NoToken
    /\ revokedToken = NoToken
    /\ freshUsed = FALSE

KeepFirstToken(old, token) == IF old.present THEN old ELSE token

\* request.session.csrfToken = token
StoreToken(old, token) == token

\* GET /api/csrf-init; tracked: the history of the session is recorded
IssueToken(tracked) ==
    \E rand \in Rands :
        LET token == GenerateCSRFToken(now, rand)
        IN  /\ sessToken' = StoreToken(sessToken, token)
            /\ sessIssuedAt' = now
            /\ cookieCsrf' = token
            /\ cookieSid' = TRUE
            /\ prevToken' = IF tracked /\ sessToken.present THEN sessToken ELSE prevToken
            /\ revokedToken' = NoToken
            /\ freshUsed' = FALSE
            /\ UNCHANGED <<now, lastCsrf, codecVars, hmacVars, clientVars>>

CsrfInit == IssueToken(FALSE)

CsrfReinit == IssueToken(TRUE)

\* the token the latest csrf-init issued, the session holding it or not any more
LatestIssued == IF sessToken.present THEN sessToken ELSE revokedToken

\* a request to a protected endpoint: the preHandler hook runs verifyCSRFToken
ProtectedRequest(hdr, tracked) ==
        LET out == VerifyCSRFToken(hdr, TRUE, sessToken, now)
            reply == ReplyFor(out)
            after == IF reply.destroyed THEN NoToken ELSE sessToken
        IN  /\ sessToken' = after
            /\ cookieCsrf' = IF reply.clearedCsrf THEN NoToken ELSE cookieCsrf
            /\ cookieSid' = IF reply.clearedSid THEN FALSE ELSE TRUE
            /\ lastCsrf' = [hdr |-> hdr, sess |-> sessToken, issuedAt |-> sessIssuedAt,
                            at |-> now, out |-> out, reply |-> reply,
                            sessAfter |-> after, prev |-> prevToken,
                            revoked |-> revokedToken]
            /\ prevToken' = IF reply.destroyed THEN NoToken ELSE prevToken
            /\ revokedToken' = IF tracked /\ out.kind = "deny" /\ sessToken.present
                               THEN sessToken ELSE revokedToken
            /\ freshUsed' = (freshUsed \/ (tracked /\ hdr.present /\ hdr = LatestIssued))
            /\ UNCHANGED <<now, sessIssuedAt, codecVars, hmacVars, clientVars>>

CsrfProtectedRequest ==
    \E hdr \in HeaderInputs(now, sessToken) : ProtectedRequest(hdr, FALSE)

\* the header values of a client that keeps the tokens it was given
KeptTokens == {NoToken, sessToken, cookieCsrf, prevToken, revokedToken, Forged(now, <<"a">>)}

CsrfKeptTokenRequest == \E hdr \in KeptTokens : ProtectedRequest(hdr, TRUE)

\* a request sent before the latest csrf-init arrives with the token of an earlier one
OlderTokenRequest ==
    /\ prevToken.present
    /\ prevToken # LatestIssued
    /\ ProtectedRequest(prevToken, TRUE)

\* a request with the token the latest csrf-init issued
FreshTokenRequest ==
    /\ LatestIssued.present
    /\ ProtectedRequest(LatestIssued, TRUE)

CsrfTick ==
    /\ now < StartTime + MaxElapsed
    /\ now' = now + 1
    /\ UNCHANGED <<csrfVars, codecVars, hmacVars, clientVars>>

----------------------------------------------------------------------------
(* The token verification stage taken alone, over drawn tokens *)

CodecKinds == {"valid", "tampered", "forged", "extracolon", "shortsig"}

CodecInputs ==
    [ts : Times, rand : Rands, kind : CodecKinds, pos : 1..SigLen,
     ch : TamperChars, at : Times]

CodecToken(in) ==
    LET valid == GenerateCSRFToken(in.ts, in.rand)
    IN  CASE in.kind = "valid" -> valid
          [] in.kind = "tampered" -> TamperSig(valid, in.pos, in.ch)
          [] in.kind = "forged" -> Forged(in.ts, in.rand)
          [] in.kind = "extracolon" -> TamperSig(valid, in.pos, ":")
          [] OTHER -> Shorter(valid)

CodecIdle ==
    /\ codecIn = [ts |-> StartTime, rand |-> <<"a">>, kind |-> "valid", pos |-> 1,
                  ch |-> "f", at |-> StartTime]
    /\ codecOut = NoOutcome

CodecVerify ==
    /\ codecOut = NoOutcome
    /\ codecOut' = VerifyTokenStage(CodecToken(codecIn), codecIn.at)
    /\ UNCHANGED <<now, csrfVars, codecIn, hmacVars, clientVars>>

----------------------------------------------------------------------------
(* Stateless HMAC authenticator and the chat route *)

Abs(x) == IF x < 0 THEN 0 - x ELSE x

ChatUrl == <<"/api/chat">>
ChatUrlQuery == <<"/api/chat", "?", "x=1">>
ModelsUrl == <<"/api/models">>

RECURSIVE UrlPath(_)
\* the part of the URL the router matches: up to the query string
UrlPath(url) ==
    IF url = <<>> \/ Head(url) = "?" THEN <<>> ELSE <<Head(url)>> \o UrlPath(Tail(url))

SignedPayload(method, path, timestamp, nonce, body) ==
    <<method, ":">> \o path \o <<":">> \o timestamp \o <<":">> \o nonce
        \o (IF body # <<>> THEN <<":">> \o body ELSE <<>>)

TimestampInvalid(t, requestTime) ==
    requestTime # NaN /\ Abs(t - requestTime) > MAX_TIMESTAMP_DIFF

NonceNeverUsed(nonce, used) == FALSE

NonceUsed(nonce, used) == nonce \in used

\* verifyRequest of the HMAC variant: the outcome for a request at time t
VerifyRequest(req, used, t) ==
    IF req.appId = <<>> \/ req.timestamp = <<>> \/ req.signature = <<>> \/ req.nonce = <<>>
    THEN Deny("Missing security headers", "401")
    ELSE IF req.appId # APP_ID THEN Deny("Invalid app ID", "401")
    ELSE IF TimestampInvalid(t, ParseInt(req.timestamp))
    THEN Deny("Request timestamp invalid", "401")
    ELSE IF NonceUsed(req.nonce, used) THEN Deny("Nonce already used", "401")
    ELSE LET payload == SignedPayload(req.method, req.url, req.timestamp, req.nonce,
                                      req.body)
             expectedSignature == HmacHex(API_SECRET, payload)
         IN  IF TimingSafeEqualThrows(req.signature, expectedSignature)
             THEN Throw("RangeError: Input buffers must have the same byte length")
             ELSE IF ~TimingSafeEqual(req.signature, expectedSignature)
             THEN Deny("Invalid signature", "401")
             ELSE Allow

\* the route the framework dispatches the request to
RouteOf(req) ==
    IF req.method = "POST" /\ UrlPath(req.url) = ChatUrl THEN "chat"
    ELSE IF req.method = "GET" /\ UrlPath(req.url) = ModelsUrl THEN "models"
    ELSE "none"

\* the condition of the preHandler hook
HookVerifies(req) == req.method = "POST" /\ req.url = ChatUrl

Request(method, url, appId, timestamp, signature, nonce, body) ==
    [method |-> method, url |-> url, appId |-> appId, timestamp |-> timestamp,
     signature |-> signature, nonce |-> nonce, body |-> body]

\* a request signed by a holder of the secret
SignedRequest(method, url, timestamp, nonce, body) ==
    Request(method, url, APP_ID, timestamp,
            HmacHex(API_SECRET, SignedPayload(method, url, timestamp, nonce, body)),
            nonce, body)

Body == <<"{}">>

TimestampInputs(t) ==
    {DecStr(ts) : ts \in (t - MAX_TIMESTAMP_DIFF - 1)..(t + MAX_TIMESTAMP_DIFF + 1)}
    \cup {<<"x">>}

\* the headers of a request allowed earlier: (timestamp, signature, nonce)
NoHeaders == [timestamp |-> <<>>, signature |-> <<>>]

Replays(url) ==
    {Request("POST", url, APP_ID, allowedBy[n].timestamp, allowedBy[n].signature, n, Body) :
        n \in {m \in Nonces : allowedBy[m] # NoHeaders}}

HmacInputs(t) ==
    LET base == SignedRequest("POST", ChatUrl, DecStr(t), <<"n1">>, Body)
    IN  {SignedRequest("POST", ChatUrl, ts, n, Body) :
            ts \in TimestampInputs(t), n \in Nonces}
        \cup {SignedRequest("POST", ChatUrlQuery, DecStr(t), <<"n2">>, Body),
              SignedRequest("POST", ChatUrl, DecStr(t), <<"n2">>, <<>>),
              Request("POST", ChatUrlQuery, <<>>, <<>>, <<>>, <<>>, Body),
              Request("GET", ModelsUrl, <<>>, <<>>, <<>>, <<>>, <<>>),
              Request("POST", ModelsUrl, <<>>, <<>>, <<>>, <<>>, Body),
              [base EXCEPT !.appId = <<>>],
              [base EXCEPT !.appId = <<"other-app">>],
              [base EXCEPT !.timestamp = <<>>],
              [base EXCEPT !.nonce = <<>>],
              [base EXCEPT !.signature = <<>>],
              [base EXCEPT !.signature = SubSeq(base.signature, 1, SigLen - 1)],
              [base EXCEPT !.signature =
                  HmacHex(OtherSecret, SignedPayload("POST", ChatUrl, DecStr(t),
                                                     <<"n1">>, Body))]}
        \cup Replays(ChatUrl)

NoHmacRequest ==
    [req |-> Request("GET", <<>>, <<>>, <<>>, <<>>, <<>>, <<>>), at |-> 0,
     out |-> NoOutcome, route |-> "none", verifyRan |-> FALSE, handlerRan |-> FALSE,
     upstream |-> FALSE, replay |-> FALSE, status |-> 0]

InitHmacVars ==
    /\ usedNonces = {}
    /\ nextClear = StartTime + NONCE_CLEANUP_INTERVAL
    /\ allowedBy = [n \in Nonces |-> NoHeaders]
    /\ lastHmac = NoHmacRequest
    /\ accepted = <<>>

IsReplay(req) ==
    /\ req.nonce \in Nonces
    /\ allowedBy[req.nonce] # NoHeaders
    /\ req.appId = APP_ID
    /\ allowedBy[req.nonce] = [timestamp |-> req.timestamp, signature |-> req.signature]

MarkNonceAlways(out, nonce, used) == used \cup {nonce}

\* usedNonces.add(nonce), reached only on the path that returns true
MarkNonce(out, nonce, used) == IF out.kind = "allow" THEN used \cup {nonce} ELSE used

\* one request through the framework: routing, the preHandler hook, the handler
HandleRequest(req, counted) ==
        LET route == RouteOf(req)
            verifies == route # "none" /\ HookVerifies(req)
            out == IF verifies THEN VerifyRequest(req, usedNonces, now) ELSE NoOutcome
            replied == out.kind \in {"deny", "throw"}
            handlerRan == route # "none" /\ ~replied
            allowed == out.kind = "allow"
        IN  /\ usedNonces' = MarkNonce(out, req.nonce, usedNonces)
            /\ allowedBy' = IF allowed
                            THEN [allowedBy EXCEPT ![req.nonce] =
                                    [timestamp |-> req.timestamp,
                                     signature |-> req.signature]]
                            ELSE allowedBy
            /\ lastHmac' = [req |-> req, at |-> now, out |-> out, route |-> route,
                            verifyRan |-> verifies, handlerRan |-> handlerRan,
                            upstream |-> (handlerRan /\ route = "chat"),
                            replay |-> IsReplay(req),
                            status |-> CASE out.kind = "deny" -> 401
                                         [] out.kind = "throw" -> 500
                                         [] route = "none" -> 404
                                         [] OTHER -> 200]
            /\ accepted' = IF ~(allowed /\ counted) THEN accepted
                           ELSE IF req \in DOMAIN accepted
                           THEN [accepted EXCEPT ![req] = @ + 1]
                           ELSE accepted @@ (req :> 1)
            /\ UNCHANGED <<now, nextClear, csrfVars, codecVars, clientVars>>

HmacRequest == \E req \in HmacInputs(now) : HandleRequest(req, FALSE)

\* the requests of one signer that reuses a nonce: every timestamp, the same nonce
ReplayInputs(t) ==
    {SignedRequest("POST", ChatUrl, ts, <<"n1">>, Body) : ts \in TimestampInputs(t)}

ReplayRequest == \E req \in ReplayInputs(now) : HandleRequest(req, TRUE)

\* the setInterval callback: usedNonces.clear()
NonceCleanup ==
    /\ now = nextClear
    /\ usedNonces' = {}
    /\ allowedBy' = [n \in Nonces |-> NoHeaders]
    /\ nextClear' = nextClear + NONCE_CLEANUP_INTERVAL
    /\ UNCHANGED <<now, lastHmac, accepted, csrfVars, codecVars, clientVars>>

HmacTick ==
    /\ now < StartTime + MaxElapsed
    /\ now < nextClear
    /\ now' = now + 1
    /\ UNCHANGED <<usedNonces, nextClear, allowedBy, lastHmac, accepted, csrfVars,
                   codecVars, clientVars>>

----------------------------------------------------------------------------
(* Client request signer: apiSecurity with the retry *)

Idle == <<"-", "idle">>
NotStopped == <<"-", "none">>

Err(name, message) == [name |-> name, message |-> message]

NoErr == Err("", "")
AbortErr == Err("AbortError", "The user aborted a request.")
NetworkErr == Err("TypeError", "Failed to fetch")
InitErr == Err("Error", "Failed to initialize CSRF token")
NoTokenErr == Err("Error", "Failed to obtain CSRF token")
RetryingErr == Err("Error", "CSRF token retry already in progress")
BodyUsedErr == Err("TypeError", "body stream already read")

\* the module state of apiSecurity and the position of the secureRequest call
Signer ==
    [initPromise |-> initPromise, isRetrying |-> isRetrying, cookie |-> cookie,
     pc |-> pc, resp |-> resp, bodyUsed |-> bodyUsed, err |-> NoErr,
     nClears |-> nClears, nInits |-> nInits, nSends |-> nSends]

ClearTokenCache(c) ==
    [c EXCEPT !.initPromise = "null", !.isRetrying = FALSE, !.cookie = FALSE,
              !.nClears = @ + 1]

Returned(c, r) == [c EXCEPT !.pc = <<"-", "ret">>, !.resp = r]

Thrown(c, e) == [c EXCEPT !.pc = <<"-", "thrown">>, !.err = e]

HeadersThrown(c, stage, e) == [c EXCEPT !.pc = <<stage, "throw">>, !.err = e]

StartFetch(c, stage) == [c EXCEPT !.nSends = @ + 1, !.pc = <<stage, "fetch">>]

\* generateSecurityHeaders up to its first pending await: getCSRFToken, initializeCSRF
BeginHeaders(c, stage) ==
    IF c.cookie THEN StartFetch(c, stage)
    ELSE IF c.initPromise = "null"
    THEN [c EXCEPT !.initPromise = "pending", !.nInits = @ + 1, !.pc = <<stage, "init">>]
    ELSE IF c.initPromise = "pending" THEN [c EXCEPT !.pc = <<stage, "init">>]
    ELSE IF c.initPromise = "rejected" THEN HeadersThrown(c, stage, InitErr)
    ELSE HeadersThrown(c, stage, NoTokenErr)

\* the catch and finally of the retry inside the outer catch
RetryCatch(c, e) ==
    Thrown([c EXCEPT !.isRetrying = FALSE],
           Err("Error", "Failed to make secure request"))

AfterRetryHeaders(c) == IF c.pc = <<"C", "throw">> THEN RetryCatch(c, c.err) ELSE c

RethrowOnly(c, e) == Thrown(c, e)

\* the outer catch of secureRequest
OuterCatch(c, e) ==
    IF ~c.isRetrying /\ c.initPromise # "null"
    THEN AfterRetryHeaders(
             BeginHeaders(ClearTokenCache([c EXCEPT !.isRetrying = TRUE]), "C"))
    ELSE Thrown(c, e)

\* an exception raised while the call is in stage A (first attempt), B (retry after a
\* CSRF denial) or C (retry of the outer catch)
StageThrow(c, stage, e) ==
    CASE stage = "A" -> OuterCatch(c, e)
      [] stage = "B" -> OuterCatch([c EXCEPT !.isRetrying = FALSE], e)
      [] OTHER -> RetryCatch(c, e)

Settle(c, stage) == IF c.pc = <<stage, "throw">> THEN StageThrow(c, stage, c.err) ELSE c

\* the retry after a CSRF denial up to its first pending await
CsrfRetry(c) ==
    Settle(BeginHeaders(ClearTokenCache([c EXCEPT !.isRetrying = TRUE]), "B"), "B")

\* secureRequest up to its first pending await
SecureRequestCall(c) ==
    IF c.isRetrying THEN Thrown(c, RetryingErr) ELSE Settle(BeginHeaders(c, "A"), "A")

\* the /api/csrf-init request settles and the call resumes
AfterInit(c, stage, ok, setsCookie) ==
    LET c1 == [c EXCEPT !.initPromise = IF ok THEN "resolved" ELSE "rejected",
                        !.cookie = IF ok /\ setsCookie THEN TRUE ELSE @]
    IN  Settle(IF ~ok THEN HeadersThrown(c1, stage, InitErr)
               ELSE IF ~c1.cookie THEN HeadersThrown(c1, stage, NoTokenErr)
               ELSE StartFetch(c1, stage), stage)

FetchOutcomes == {"ok", "csrf403", "other403", "err", "neterr"}

IsCSRFError(r) == r \in {"csrf403", "other403"}

\* the request to the protected URL settles and the call resumes
AfterFetch(c, stage, outcome, isAborted) ==
    IF isAborted THEN StageThrow(c, stage, AbortErr)
    ELSE IF outcome = "neterr" THEN StageThrow(c, stage, NetworkErr)
    ELSE IF stage = "A"
    THEN IF IsCSRFError(outcome)
         THEN [c EXCEPT !.pc = <<"A", "json">>, !.resp = outcome]
         ELSE Returned(c, outcome)
    ELSE Returned([c EXCEPT !.isRetrying = FALSE], outcome)

\* response.json() of the 403 response settles and the call resumes
AfterErrorBody(c, isAborted) ==
    IF ~isAborted /\ c.resp = "csrf403" THEN CsrfRetry(c)
    ELSE Returned([c EXCEPT !.bodyUsed = TRUE], c.resp)

----------------------------------------------------------------------------
(* Stream reassembly of useCustomChat *)

ToolIds == {"X", "Y"}

Message(role, content, reasoning, isTool, toolId) ==
    [role |-> role, content |-> content, reasoning |-> reasoning,
     isTool |-> isTool, toolId |-> toolId]

UserMessage(text) == Message("user", text, <<>>, FALSE, "")

\* toolCall.function?.name || `Tool call: ${toolCall.id}`
ToolLabel(id) == IF id = "X" THEN <<"html_to_markdown">> ELSE <<"Tool call: ", id>>

AgentMessage(id) == Message("agent", ToolLabel(id), <<>>, TRUE, id)

\* one parsed line of the stream; content and reasoning <<>> stand for ''
Frame(kind, role, hasContent, content, reasoning, hasTools, tools) ==
    [kind |-> kind, role |-> role, hasContent |-> hasContent, content |-> content,
     reasoning |-> reasoning, hasTools |-> hasTools, tools |-> tools]

Data(hasContent, content, reasoning, hasTools, tools) ==
    Frame("data", "assistant", hasContent, content, reasoning, hasTools, tools)

DoneFrame == Frame("done", "", FALSE, <<>>, <<>>, FALSE, <<>>)
\* a line that JSON.parse rejects: the text of a chunk with content, cut short
BadFrame == Frame("bad", "assistant", TRUE, <<"a">>, <<>>, FALSE, <<>>)
NoFrame == Frame("none", "", FALSE, <<>>, <<>>, FALSE, <<>>)

ContentFrames ==
    {Data(TRUE, <<"a">>, <<>>, FALSE, <<>>), Data(TRUE, <<"b">>, <<>>, FALSE, <<>>)}

ReasoningFrames ==
    {Data(TRUE, <<"a">>, <<"r">>, FALSE, <<>>),
     Data(FALSE, <<>>, <<"r">>, FALSE, <<>>),
     Data(TRUE, <<"a">>, <<" ">>, FALSE, <<>>)}

ToolFrames ==
    {Data(FALSE, <<>>, <<>>, TRUE, <<"X">>),
     Data(TRUE, <<"a">>, <<>>, TRUE, <<"X">>),
     Data(FALSE, <<>>, <<>>, TRUE, <<"Y">>),
     Data(TRUE, <<"b">>, <<>>, TRUE, <<"Y">>),
     Data(TRUE, <<"a">>, <<>>, TRUE, <<"Y", "X">>),
     Data(FALSE, <<>>, <<>>, TRUE, <<"X", "X">>),
     Data(TRUE, <<"b">>, <<"r">>, TRUE, <<"X">>),
     Data(TRUE, <<"a">>, <<>>, TRUE, <<>>)}

OtherFrames ==
    {Frame("data", "tool", TRUE, <<"a">>, <<>>, FALSE, <<>>),
     Frame("data", "tool", TRUE, <<"b">>, <<"r">>, TRUE, <<"Y">>),
     DoneFrame, BadFrame}

Frames == ContentFrames \cup ReasoningFrames \cup ToolFrames \cup OtherFrames

EmptyAccumulator ==
    [content |-> <<>>, reasoning |-> <<>>, seen |-> {},
     toolContent |-> [id \in ToolIds |-> <<>>]]

RECURSIVE TrimStart(_)
TrimStart(t) == IF t # <<>> /\ Head(t) = " " THEN TrimStart(Tail(t)) ELSE t

RECURSIVE TrimEnd(_)
TrimEnd(t) ==
    IF t # <<>> /\ t[Len(t)] = " " THEN TrimEnd(SubSeq(t, 1, Len(t) - 1)) ELSE t

Trim(t) == TrimEnd(TrimStart(t))

Max(S) == CHOOSE x \in S : \A y \in S : y <= x

\* findLastIndex, 0 for -1
LastAssistantIndex(msgs) ==
    LET S == {i \in 1..Len(msgs) : msgs[i].role = "assistant"}
    IN  IF S = {} THEN 0 ELSE Max(S)

LastAgentIndex(msgs, id) ==
    LET S == {i \in 1..Len(msgs) :
                 msgs[i].role = "agent" /\ msgs[i].isTool /\ msgs[i].toolId = id}
    IN  IF S = {} THEN 0 ELSE Max(S)

\* delta.content || message.content is a value (not undefined)
HasContent(f) == f.hasContent /\ f.content # <<>>

HasReasoning(f) == f.reasoning # <<>>

RECURSIVE OpenToolCalls(_, _, _)
\* the loop over newToolCalls: one agent message per fragment
OpenToolCalls(msgs, a, newToolCalls) ==
    IF newToolCalls = <<>> THEN [messages |-> msgs, acc |-> a]
    ELSE LET id == Head(newToolCalls)
         IN  OpenToolCalls(Append(msgs, AgentMessage(id)),
                           [a EXCEPT !.seen = @ \cup {id}, !.toolContent[id] = <<>>],
                           Tail(newToolCalls))

FirstToolCall(tools) == tools[1]

\* toolCallsDelta[toolCallsDelta.length - 1]
LastToolCall(tools) == tools[Len(tools)]

\* content that arrives with tool calls goes to the last tool call of the chunk
AttributeToolContent(st, f) ==
    IF HasContent(f) /\ Len(f.tools) > 0
    THEN LET lastToolCall == LastToolCall(f.tools)
             newContent == st.acc.toolContent[lastToolCall] \o f.content
             i == LastAgentIndex(st.messages, lastToolCall)
         IN  IF lastToolCall \in st.acc.seen
             THEN [messages |-> IF i = 0 THEN st.messages
                                ELSE [st.messages EXCEPT ![i].content = newContent],
                   acc |-> [st.acc EXCEPT !.toolContent[lastToolCall] = newContent]]
             ELSE st
    ELSE st

AppendAssistant(msgs, m) == Append(msgs, m)

\* the assistant message replaces the last element when that is an assistant message
UpsertAssistant(msgs, m) ==
    LET lastAssistantIndex == LastAssistantIndex(msgs)
    IN  IF lastAssistantIndex # 0 /\ lastAssistantIndex = Len(msgs)
        THEN [msgs EXCEPT ![lastAssistantIndex] = m]
        ELSE Append(msgs, m)

AnyContentIsAssistant(f) == TRUE

\* toolCallsDelta == null
ContentIsAssistant(f) == ~f.hasTools

AssistantContent(st, f) ==
    IF HasContent(f)
    THEN LET c == IF ContentIsAssistant(f) THEN st.acc.content \o f.content
                  ELSE st.acc.content
             r == IF HasReasoning(f) THEN st.acc.reasoning \o f.reasoning
                  ELSE st.acc.reasoning
             a == [st.acc EXCEPT !.content = c, !.reasoning = r]
             m == Message("assistant", c, IF Trim(r) # <<>> THEN r ELSE <<>>, FALSE, "")
         IN  IF (c # <<>> \/ r # <<>>) /\ ~f.hasTools
             THEN [messages |-> UpsertAssistant(st.messages, m), acc |-> a]
             ELSE [messages |-> st.messages, acc |-> a]
    ELSE st

SkipsOnlyDone(f) == f.kind = "done"

\* the line is '[DONE]' or JSON.parse throws into the catch of the line
Skipped(f) == f.kind # "data"

NoToolRole(f) == FALSE

\* delta.role or message.role is 'tool'
IsToolRole(f) == f.role = "tool"

\* the body of the loop over the lines of a read, for one line
ApplyFrame(msgs, a, f) ==
    IF Skipped(f) \/ IsToolRole(f) THEN [messages |-> msgs, acc |-> a]
    ELSE LET opened ==
                 IF f.hasTools
                 THEN AttributeToolContent(
                          OpenToolCalls(msgs, a,
                                        SelectSeq(f.tools, LAMBDA t : t \notin a.seen)),
                          f)
                 ELSE [messages |-> msgs, acc |-> a]
         IN  AssistantContent(opened, f)

----------------------------------------------------------------------------
(* The line buffer of handleChatRequest: reader.read(), TextDecoder, split('\n') *)

LF == "\n"
\* a character of two bytes and its UTF-8 encoding
TwoByteChar == "U+00E9"
LeadByte == "0xC3"
TrailByte == "0xA9"
ReplacementChar == "U+FFFD"

DataPrefix == <<"d", "a", "t", "a", ":">>

\* the pieces the body of a response is made of, as bytes
Pieces == {DataPrefix, <<" ">>, <<"a">>, <<LF>>, <<LeadByte, TrailByte>>}

RECURSIVE Flatten(_)
Flatten(ss) == IF ss = <<>> THEN <<>> ELSE Head(ss) \o Flatten(Tail(ss))

\* newline-terminated bodies of up to MaxPieces pieces
Bodies == {Flatten(ps) \o <<LF>> : ps \in UNION {[1..n -> Pieces] : n \in 0..MaxPieces}}

\* decoder.decode(value, {stream: true}) on the held-back bytes followed by value
RECURSIVE Decode(_)
Decode(bs) ==
    IF bs = <<>> THEN [text |-> <<>>, pending |-> <<>>]
    ELSE IF bs[1] = LeadByte
    THEN IF Len(bs) = 1 THEN [text |-> <<>>, pending |-> bs]
         ELSE IF bs[2] = TrailByte
         THEN LET d == Decode(SubSeq(bs, 3, Len(bs)))
              IN  [d EXCEPT !.text = <<TwoByteChar>> \o @]
         ELSE LET d == Decode(Tail(bs))
              IN  [d EXCEPT !.text = <<ReplacementChar>> \o @]
    ELSE LET d == Decode(Tail(bs))
         IN  [d EXCEPT !.text = <<IF bs[1] = TrailByte THEN ReplacementChar ELSE bs[1]>> \o @]

\* buffer.split('\n')
RECURSIVE SplitLinesFrom(_, _, _)
SplitLinesFrom(s, cur, acc) ==
    IF s = <<>> THEN Append(acc, cur)
    ELSE IF Head(s) = LF THEN SplitLinesFrom(Tail(s), <<>>, Append(acc, cur))
    ELSE SplitLinesFrom(Tail(s), Append(cur, Head(s)), acc)

SplitLines(s) == SplitLinesFrom(s, <<>>, <<>>)

DropRemainder(segs) == <<>>

\* lines.pop() || ''
Remainder(segs) == segs[Len(segs)]

StartsWith(s, prefix) == Len(s) >= Len(prefix) /\ SubSeq(s, 1, Len(prefix)) = prefix

\* line.replace(/^data:\s?/, '')
StripDataPrefix(line) ==
    LET rest == SubSeq(line, Len(DataPrefix) + 1, Len(line))
    IN  IF rest # <<>> /\ Head(rest) = " " THEN Tail(rest) ELSE rest

\* the for loop over the complete lines: the data each 'data:' line hands on
RECURSIVE DataOf(_)
DataOf(lines) ==
    IF lines = <<>> THEN <<>>
    ELSE (IF StartsWith(Head(lines), DataPrefix) THEN <<StripDataPrefix(Head(lines))>>
          ELSE <<>>) \o DataOf(Tail(lines))

\* one turn of the read loop on a value of bytes
ReadValue(r, value) ==
    LET d == Decode(r.pending \o value)
        segs == SplitLines(r.buffer \o d.text)
    IN  [pending |-> d.pending,
         buffer |-> Remainder(segs),
         handled |-> r.handled \o DataOf(SubSeq(segs, 1, Len(segs) - 1))]

BeforeReading == [pending |-> <<>>, buffer |-> <<>>, handled |-> <<>>]

\* reader.read() delivers the next n bytes of the body
ReadChunk ==
    /\ delivered < Len(wire)
    /\ \E n \in 1..(Len(wire) - delivered) :
          LET r == ReadValue([pending |-> pending, buffer |-> buffer, handled |-> handled],
                             SubSeq(wire, delivered + 1, delivered + n))
          IN  /\ delivered' = delivered + n
              /\ pending' = r.pending
              /\ buffer' = r.buffer
              /\ handled' = r.handled
              /\ midLine' = (midLine \/ r.buffer # <<>>)
              /\ midChar' = (midChar \/ r.pending # <<>>)
    /\ UNCHANGED <<wire, now, csrfVars, codecVars, hmacVars, signerVars, hookVars, histVars,
                   clean, callVars, overlapVars>>

LinesIdle ==
    /\ delivered = 0
    /\ pending = <<>>
    /\ buffer = <<>>
    /\ handled = <<>>
    /\ midLine = FALSE
    /\ midChar = FALSE

----------------------------------------------------------------------------
(* The chat hook: handleChatRequest, stop *)

AlwaysError(e) == "error"

\* the status the catch block of handleChatRequest sets
CatchStatus(e) == IF e.name = "AbortError" THEN "idle" ELSE "error"

NoMessage(m) == "null"

ModelErrors == {"Invalid model", "Failed to fetch from model"}

DisplayMessage(m) == IF m \in ModelErrors THEN "The model is not enabled" ELSE m

\* errorData.details || errorData.error of the response
ServerMessage(r) ==
    CASE r = "err" -> "Invalid model"
      [] r = "other403" -> "upstream error details"
      [] OTHER -> "CSRF token mismatch"

\* catch and finally of handleChatRequest
HookCatch(e, st, er) ==
    [pc |-> Idle, status |-> CatchStatus(e),
     error |-> IF e.name = "AbortError" THEN er ELSE DisplayMessage(e.message),
     abortRef |-> FALSE, reading |-> FALSE]

\* handleChatRequest after secureRequest has advanced to c
HookAfter(c, st, er, ab) ==
    IF c.pc = <<"-", "thrown">> THEN HookCatch(c.err, st, er)
    ELSE IF c.pc = <<"-", "ret">>
    THEN IF c.resp = "ok"
         THEN [pc |-> <<"H", "read">>, status |-> st, error |-> er, abortRef |-> ab,
               reading |-> TRUE]
         ELSE IF c.bodyUsed THEN HookCatch(BodyUsedErr, st, er)
         ELSE [pc |-> <<"H", "json">>, status |-> st, error |-> er, abortRef |-> ab,
               reading |-> FALSE]
    ELSE [pc |-> c.pc, status |-> st, error |-> er, abortRef |-> ab, reading |-> FALSE]

SetSigner(c, h) ==
    /\ initPromise' = c.initPromise
    /\ isRetrying' = c.isRetrying
    /\ cookie' = c.cookie
    /\ resp' = c.resp
    /\ bodyUsed' = c.bodyUsed
    /\ nClears' = c.nClears
    /\ nInits' = c.nInits
    /\ nSends' = c.nSends
    /\ pc' = h.pc

SetHook(h) ==
    /\ status' = h.status
    /\ error' = h.error
    /\ abortRef' = h.abortRef
    /\ accumulator' = IF h.reading THEN EmptyAccumulator ELSE accumulator

Others == <<now, csrfVars, codecVars, hmacVars, callVars, lineVars, overlapVars>>

Question == <<"q">>

\* handleSubmit with a non-empty input, no chat request being in flight
HandleSubmit ==
    /\ pc = Idle
    /\ nReq < MaxRequests
    /\ LET c == SecureRequestCall([Signer EXCEPT !.nClears = 0, !.nInits = 0,
                                                 !.nSends = 0, !.bodyUsed = FALSE,
                                                 !.resp = "none"])
           h == HookAfter(c, "loading", "null", TRUE)
       IN  /\ SetSigner(c, h)
           /\ SetHook(h)
    /\ messages' = Append(messages, UserMessage(Question))
    /\ aborted' = FALSE
    /\ nReq' = nReq + 1
    /\ stopAt' = NotStopped
    /\ msgsAtStop' = <<>>
    /\ respBase' = Append(messages, UserMessage(Question))
    /\ deltas' = <<>>
    /\ pure' = TRUE
    /\ nApplied' = 0
    /\ lastFrame' = NoFrame
    /\ clean' = TRUE
    /\ UNCHANGED <<nFrames, Others>>

\* a step of secureRequest that leaves the message list alone
SignerStep(c, fault) ==
    LET h == HookAfter(c, status, error, abortRef)
    IN  /\ SetSigner(c, h)
        /\ SetHook(h)
        /\ clean' = (clean /\ ~fault)
        /\ UNCHANGED <<messages, aborted, histVars, Others>>

InitSettles(cookieOutcomes) ==
    /\ pc[2] = "init"
    /\ initPromise = "pending"
    /\ \E ok \in BOOLEAN, setsCookie \in cookieOutcomes :
          SignerStep(AfterInit(Signer, pc[1], ok, setsCookie), ~(ok /\ setsCookie))

FetchSettles(outcomes) ==
    /\ pc[2] = "fetch"
    /\ \E outcome \in outcomes :
          SignerStep(AfterFetch(Signer, pc[1], outcome, aborted),
                     ~aborted /\ outcome # "ok")

ErrorBodySettles ==
    /\ pc = <<"A", "json">>
    /\ SignerStep(AfterErrorBody(Signer, aborted), FALSE)

\* response.json() of handleChatRequest settles: the error of a response that is not ok
HookErrorBodySettles ==
    /\ pc = <<"H", "json">>
    /\ LET h == HookCatch(IF aborted THEN AbortErr ELSE Err("Error", ServerMessage(resp)),
                          status, error)
       IN  /\ pc' = h.pc
           /\ SetHook(h)
    /\ UNCHANGED <<initPromise, isRetrying, cookie, resp, bodyUsed, nClears, nInits,
                   nSends, messages, aborted, histVars, clean, Others>>

\* the browser drops the csrf-token cookie (its max age has passed)
CookieExpires ==
    /\ cookie
    /\ cookie' = FALSE
    /\ UNCHANGED <<initPromise, isRetrying, pc, resp, bodyUsed, nClears, nInits, nSends,
                   hookVars, histVars, clean, Others>>

Stop ==
    /\ abortRef
    /\ aborted' = TRUE
    /\ abortRef' = FALSE
    /\ status' = "idle"
    /\ stopAt' = pc
    /\ msgsAtStop' = messages
    /\ UNCHANGED <<signerVars, messages, error, accumulator, nReq, nFrames, respBase,
                   deltas, pure, nApplied, lastFrame, clean, Others>>

IsPureContent(f) ==
    f.kind = "data" /\ f.role = "assistant" /\ HasContent(f) /\ ~HasReasoning(f)
        /\ ~f.hasTools

\* reader.read() delivers a line and the loop body handles it
ReadFrame(frames) ==
    /\ pc = <<"H", "read">>
    /\ ~aborted
    /\ nFrames < MaxFrames
    /\ \E f \in frames :
          LET st == ApplyFrame(messages, accumulator, f)
          IN  /\ messages' = st.messages
              /\ accumulator' = st.acc
              /\ lastFrame' = f
              /\ deltas' = IF IsPureContent(f) THEN deltas \o f.content ELSE deltas
              /\ pure' = (pure /\ (IsPureContent(f) \/ f.kind = "done"))
    /\ nFrames' = nFrames + 1
    /\ nApplied' = nApplied + 1
    /\ UNCHANGED <<signerVars, status, error, abortRef, aborted, nReq, stopAt,
                   msgsAtStop, respBase, clean, Others>>

\* reader.read() settles for the last time: done, the abort, or a transport failure
ReadEnds(how) ==
    /\ pc = <<"H", "read">>
    /\ how = "abort" <=> aborted
    /\ LET h == IF how = "done"
                THEN [pc |-> Idle, status |-> "idle", error |-> error,
                      abortRef |-> FALSE, reading |-> FALSE]
                ELSE HookCatch(IF how = "abort" THEN AbortErr ELSE NetworkErr,
                               status, error)
       IN  /\ pc' = h.pc
           /\ SetHook(h)
    /\ clean' = (clean /\ how # "fail")
    /\ UNCHANGED <<initPromise, isRetrying, cookie, resp, bodyUsed, nClears, nInits,
                   nSends, messages, aborted, histVars, Others>>

ReadDone == ReadEnds("done")

ReadAborted == ReadEnds("abort")

ReadFails == ReadEnds("fail")

\* the lists a caller of the exposed setMessages passes
NewLists == {<<>>, <<UserMessage(Question)>>}

\* clearMessages, exposed as setMessages
ClearMessages ==
    /\ \E finalMessages \in NewLists :
          /\ messages' = finalMessages
          /\ error' = IF Len(finalMessages) = 0 THEN "null" ELSE error
          /\ status' = IF Len(finalMessages) = 0 THEN "idle" ELSE status
    /\ UNCHANGED <<signerVars, abortRef, aborted, accumulator, histVars, clean, Others>>

LastIndex(msgs) == Len(msgs)

\* messages.findLastIndex(msg => msg.role === 'user'), 0 for -1
LastUserIndex(msgs) == Max({0} \cup {i \in 1..Len(msgs) : msgs[i].role = "user"})

\* reload, no chat request being in flight
Reload ==
    /\ pc = Idle
    /\ nReq < MaxRequests
    /\ Len(messages) > 0
    /\ status # "loading"
    /\ LastUserIndex(messages) # 0
    /\ LET updatedMessages == SubSeq(messages, 1, LastUserIndex(messages) - 1)
           lastUserMessage == messages[LastUserIndex(messages)]
           c == SecureRequestCall([Signer EXCEPT !.nClears = 0, !.nInits = 0,
                                                 !.nSends = 0, !.bodyUsed = FALSE,
                                                 !.resp = "none"])
           h == HookAfter(c, "loading", "null", TRUE)
       IN  /\ SetSigner(c, h)
           /\ SetHook(h)
           /\ messages' = Append(updatedMessages, UserMessage(lastUserMessage.content))
           /\ respBase' = Append(updatedMessages, UserMessage(lastUserMessage.content))
    /\ aborted' = FALSE
    /\ nReq' = nReq + 1
    /\ stopAt' = NotStopped
    /\ msgsAtStop' = <<>>
    /\ deltas' = <<>>
    /\ pure' = TRUE
    /\ nApplied' = 0
    /\ lastFrame' = NoFrame
    /\ clean' = TRUE
    /\ UNCHANGED <<nFrames, Others>>

----------------------------------------------------------------------------
(* The chat hook with requests that overlap: handleSubmit and reload do not wait *)
(* for the request before                                                       *)

\* three calls of handleChatRequest: two turns and a reload, or any other three
Requests == {1, 2, 3}

HistoryLimit == 6

\* filterMessages (the hook makes no image messages)
FilterMessages(msgs) ==
    SelectSeq(msgs, LAMBDA m : m.role # "agent" /\ Trim(m.content) # <<>>)

\* slice(-n)
LastOf(s, n) == SubSeq(s, Max({1, Len(s) - n + 1}), Len(s))

\* the messages of the request body
RequestHistory(previousMessages, userMessage) ==
    LastOf(FilterMessages(Append(previousMessages, userMessage)), HistoryLimit)

OverlapRest ==
    <<signerVars, aborted, accumulator, stopAt, msgsAtStop, respBase, deltas, pure,
      nApplied, lastFrame, clean, now, csrfVars, codecVars, hmacVars, callVars, lineVars>>

\* handleChatRequest up to the await of secureRequest, as request i
StartRequest(i, previousMessages, content) ==
    /\ reqPc[i] = "idle"
    /\ \A j \in 1..(i - 1) : reqPc[j] # "idle"
    /\ messages' = Append(previousMessages, UserMessage(content))
    /\ error' = "null"
    /\ status' = "loading"
    /\ ctrlRef' = i
    /\ abortRef' = TRUE
    /\ reqPc' = [reqPc EXCEPT ![i] = "flight"]
    /\ reqAcc' = [reqAcc EXCEPT ![i] = EmptyAccumulator]
    /\ lastBody' = RequestHistory(previousMessages, UserMessage(content))
    /\ nReq' = nReq + 1
    /\ UNCHANGED <<ctrlAborted, nFrames, OverlapRest>>

\* handleSubmit with a non-empty input
OverlapSubmit == \E i \in Requests : StartRequest(i, messages, Question)

OverlapReload ==
    /\ Len(messages) > 0
    /\ status # "loading"
    /\ LastUserIndex(messages) # 0
    /\ \E i \in Requests :
          StartRequest(i, SubSeq(messages, 1, LastUserIndex(messages) - 1),
                       messages[LastUserIndex(messages)].content)

OverlapStop ==
    /\ ctrlRef # 0
    /\ ctrlAborted' = ctrlAborted \cup {ctrlRef}
    /\ ctrlRef' = 0
    /\ abortRef' = FALSE
    /\ status' = "idle"
    /\ UNCHANGED <<messages, error, reqPc, reqAcc, lastBody, nReq, nFrames, OverlapRest>>

\* assistant chunks that carry content only, or tool calls: the chunks of a
\* reply in which text and tool calls alternate
InterleavedFrames ==
    {f \in Frames : f.kind = "data" /\ f.role = "assistant" /\ (IsPureContent(f) \/ f.hasTools)}

\* a chunk of content and a chunk that opens a tool call
OverlapFrames ==
    {Data(TRUE, <<"a">>, <<>>, FALSE, <<>>), Data(FALSE, <<>>, <<>>, TRUE, <<"X">>)}

\* request i, its response having arrived, reads a line and handles it
OverlapReadFrame(frames) ==
    \E i \in Requests, f \in frames :
        LET st == ApplyFrame(messages, reqAcc[i], f)
        IN  /\ reqPc[i] = "flight"
            /\ i \notin ctrlAborted
            /\ nFrames < MaxFrames
            /\ messages' = st.messages
            /\ reqAcc' = [reqAcc EXCEPT ![i] = st.acc]
            /\ nFrames' = nFrames + 1
            /\ UNCHANGED <<status, error, abortRef, reqPc, ctrlRef, ctrlAborted, lastBody,
                           nReq, OverlapRest>>

\* request i ends: the stream is done, or the catch block runs; then the finally block
OverlapEnds ==
    \E i \in Requests, how \in {"done", "abort", "fail"} :
        LET h == IF how = "done"
                 THEN [status |-> "idle", error |-> error]
                 ELSE HookCatch(IF how = "abort" THEN AbortErr ELSE NetworkErr,
                                status, error)
        IN  /\ reqPc[i] = "flight"
            /\ how = "abort" <=> i \in ctrlAborted
            /\ status' = h.status
            /\ error' = h.error
            /\ ctrlRef' = 0
            /\ abortRef' = FALSE
            /\ reqPc' = [reqPc EXCEPT ![i] = "done"]
            /\ UNCHANGED <<messages, ctrlAborted, reqAcc, lastBody, nReq, nFrames,
                           OverlapRest>>

OverlapIdle ==
    /\ reqPc = [i \in Requests |-> "idle"]
    /\ ctrlRef = 0
    /\ ctrlAborted = {}
    /\ reqAcc = [i \in Requests |-> EmptyAccumulator]
    /\ lastBody = <<>>

InitClientVars ==
    /\ initPromise = "null"
    /\ isRetrying = FALSE
    /\ pc = Idle
    /\ resp = "none"
    /\ bodyUsed = FALSE
    /\ nClears = 0
    /\ nInits = 0
    /\ nSends = 0
    /\ messages = <<>>
    /\ status = "idle"
    /\ error = "null"
    /\ abortRef = FALSE
    /\ aborted = FALSE
    /\ accumulator = EmptyAccumulator
    /\ nReq = 0
    /\ nFrames = 0
    /\ stopAt = NotStopped
    /\ msgsAtStop = <<>>
    /\ respBase = <<>>
    /\ deltas = <<>>
    /\ pure = TRUE
    /\ nApplied = 0
    /\ lastFrame = NoFrame
    /\ clean = TRUE
    /\ initPromiseId = 0
    /\ inits = <<>>
    /\ callPc = [i \in 1..MaxCalls |-> Idle]
    /\ callAwaits = [i \in 1..MaxCalls |-> 0]
    /\ LinesIdle
    /\ OverlapIdle

----------------------------------------------------------------------------
(* Concurrent calls of secureRequest *)

Calls == 1..MaxCalls

\* the module state and the position of call i, threaded through the steps of the call
Call(i) ==
    [promise |-> initPromiseId, inits |-> inits, isRetrying |-> isRetrying,
     cookie |-> cookie, pc |-> callPc[i], awaits |-> callAwaits[i]]

\* what the variable initPromise holds, by the state of the request behind it
PromiseState(id, requests) ==
    IF id = 0 THEN "null"
    ELSE CASE requests[id] = "flight" -> "pending"
           [] requests[id] = "ok" -> "resolved"
           [] OTHER -> "rejected"

\* clearTokenCache
CallClear(g) == [g EXCEPT !.promise = 0, !.isRetrying = FALSE, !.cookie = FALSE]

\* generateSecurityHeaders up to its first await, or to the fetch when the cookie is there
CallHeaders(g, stage) ==
    IF g.cookie THEN [g EXCEPT !.pc = <<stage, "fetch">>]
    ELSE IF g.promise # 0 THEN [g EXCEPT !.pc = <<stage, "init">>, !.awaits = g.promise]
    ELSE LET k == Len(g.inits) + 1
         IN  [g EXCEPT !.inits = Append(@, "flight"), !.promise = k, !.awaits = k,
                       !.pc = <<stage, "init">>]

CallEnds(g, how) == [g EXCEPT !.pc = <<"-", how>>]

\* isRetrying = true; clearTokenCache(); generateSecurityHeaders()
CallRetry(g, stage) == CallHeaders(CallClear([g EXCEPT !.isRetrying = TRUE]), stage)

\* the outer catch of secureRequest
CallCatch(g) ==
    IF ~g.isRetrying /\ g.promise # 0 THEN CallRetry(g, "C") ELSE CallEnds(g, "thrown")

\* an exception in the first attempt (A), the 403 retry (B) or the retry of the catch (C)
CallThrow(g, stage) ==
    CASE stage = "A" -> CallCatch(g)
      [] stage = "B" -> CallCatch([g EXCEPT !.isRetrying = FALSE])
      [] OTHER -> CallEnds([g EXCEPT !.isRetrying = FALSE], "thrown")

Commit(i, g) ==
    /\ initPromiseId' = g.promise
    /\ inits' = g.inits
    /\ initPromise' = PromiseState(g.promise, g.inits)
    /\ isRetrying' = g.isRetrying
    /\ cookie' = g.cookie
    /\ callPc' = [callPc EXCEPT ![i] = g.pc]
    /\ callAwaits' = [callAwaits EXCEPT ![i] = g.awaits]
    /\ UNCHANGED <<pc, resp, bodyUsed, nClears, nInits, nSends, hookVars, histVars, clean,
                   now, csrfVars, codecVars, hmacVars, lineVars, overlapVars>>

\* a caller calls secureRequest
CallStart ==
    \E i \in Calls :
        /\ callPc[i] = Idle
        /\ Commit(i, IF isRetrying THEN CallEnds(Call(i), "thrown")
                     ELSE CallHeaders(Call(i), "A"))

\* the response of a /api/csrf-init request arrives; the browser stores its cookie
InitResponds ==
    \E k \in 1..Len(inits), ok \in BOOLEAN :
        /\ inits[k] = "flight"
        /\ inits' = [inits EXCEPT ![k] = IF ok THEN "ok" ELSE "failed"]
        /\ cookie' = (cookie \/ ok)
        /\ initPromise' = PromiseState(initPromiseId, inits')
        /\ UNCHANGED <<initPromiseId, callPc, callAwaits, isRetrying, pc, resp, bodyUsed,
                       nClears, nInits, nSends, hookVars, histVars, clean, now, csrfVars,
                       codecVars, hmacVars, lineVars, overlapVars>>

\* a call resumes after the init request it awaited has settled
CallInitSettles ==
    \E i \in Calls :
        /\ callPc[i][2] = "init"
        /\ inits[callAwaits[i]] # "flight"
        /\ Commit(i, IF inits[callAwaits[i]] = "failed" \/ ~cookie
                     THEN CallThrow(Call(i), callPc[i][1])
                     ELSE [Call(i) EXCEPT !.pc = <<callPc[i][1], "fetch">>])

\* the request of a call is answered; a 403 here is a CSRF denial of the server
CallFetchSettles ==
    \E i \in Calls, outcome \in {"ok", "csrf403", "neterr"} :
        /\ callPc[i][2] = "fetch"
        /\ Commit(i, IF outcome = "neterr" THEN CallThrow(Call(i), callPc[i][1])
                     ELSE IF callPc[i][1] = "A"
                     THEN IF IsCSRFError(outcome) THEN [Call(i) EXCEPT !.pc = <<"A", "json">>]
                          ELSE CallEnds(Call(i), "ret")
                     ELSE CallEnds([Call(i) EXCEPT !.isRetrying = FALSE], "ret"))

\* the body of the 403 is parsed and the call starts its re-authentication
CallErrorBodySettles ==
    \E i \in Calls :
        /\ callPc[i] = <<"A", "json">>
        /\ Commit(i, CallRetry(Call(i), "B"))

----------------------------------------------------------------------------
(* Specifications *)

----------------------------------------------------------------------------
(* The client and the server end to end, one chat request at a time *)

\* what the chat route answers once the request has passed the CSRF check
UpstreamOutcomes == {"ok", "other403", "err"}

\* the server handles the /api/csrf-init request in flight and the call resumes
E2EInitSettles ==
    /\ pc[2] = "init"
    /\ initPromise = "pending"
    /\ \E rand \in Rands :
          LET token == GenerateCSRFToken(now, rand)
              c == AfterInit(Signer, pc[1], TRUE, TRUE)
              h == HookAfter(c, status, error, abortRef)
          IN  /\ sessToken' = StoreToken(sessToken, token)
              /\ sessIssuedAt' = now
              /\ cookieCsrf' = token
              /\ cookieSid' = TRUE
              /\ revokedToken' = NoToken
              /\ freshUsed' = FALSE
              /\ SetSigner(c, h)
              /\ SetHook(h)
    /\ UNCHANGED <<now, lastCsrf, prevToken, codecVars, hmacVars, messages, aborted,
                   histVars, clean, callVars, lineVars, overlapVars>>

\* the server handles the request to /api/chat in flight, which carries the token of the
\* cookie, and the call resumes with its response
E2EFetchSettles ==
    /\ pc[2] = "fetch"
    /\ \E upstream \in UpstreamOutcomes :
          LET out == VerifyCSRFToken(cookieCsrf, TRUE, sessToken, now)
              reply == ReplyFor(out)
              outcome == CASE out.kind = "deny" -> "csrf403"
                           [] out.kind = "throw" -> "err"
                           [] OTHER -> upstream
              c == AfterFetch([Signer EXCEPT !.cookie = @ /\ ~reply.clearedCsrf],
                              pc[1], outcome, FALSE)
              h == HookAfter(c, status, error, abortRef)
          IN  /\ sessToken' = IF reply.destroyed THEN NoToken ELSE sessToken
              /\ cookieCsrf' = IF reply.clearedCsrf THEN NoToken ELSE cookieCsrf
              /\ cookieSid' = IF reply.clearedSid THEN FALSE ELSE TRUE
              /\ lastCsrf' = [hdr |-> cookieCsrf, sess |-> sessToken,
                              issuedAt |-> sessIssuedAt, at |-> now, out |-> out,
                              reply |-> reply,
                              sessAfter |-> IF reply.destroyed THEN NoToken ELSE sessToken,
                              prev |-> prevToken, revoked |-> revokedToken]
              /\ SetSigner(c, h)
              /\ SetHook(h)
    /\ UNCHANGED <<now, sessIssuedAt, prevToken, revokedToken, freshUsed, codecVars,
                   hmacVars, messages, aborted, histVars, clean, callVars, lineVars,
                   overlapVars>>

ServerIdle == now = StartTime /\ InitCsrfVars /\ CodecIdle /\ InitHmacVars

ClientIdle == InitClientVars /\ cookie = FALSE /\ wire = <<>>

InitCsrf == ServerIdle /\ ClientIdle

NextCsrf == CsrfInit \/ CsrfProtectedRequest \/ CsrfTick

SpecCsrf == InitCsrf /\ [][NextCsrf]_vars

\* one session over its csrf-inits and denials, the client presenting tokens it holds
NextSession == CsrfReinit \/ CsrfKeptTokenRequest \/ CsrfTick

SpecSession == InitCsrf /\ [][NextSession]_vars

\* chat requests one after the other against the server, the clock running
NextE2E ==
    \/ HandleSubmit
    \/ E2EInitSettles
    \/ E2EFetchSettles
    \/ ErrorBodySettles
    \/ HookErrorBodySettles
    \/ ReadDone
    \/ CsrfTick

SpecE2E == InitCsrf /\ [][NextE2E]_vars

\* requests with the latest token, racing with requests that carry an older one
NextRace == CsrfReinit \/ OlderTokenRequest \/ FreshTokenRequest \/ CsrfTick

SpecRace == InitCsrf /\ [][NextRace]_vars

InitCodec ==
    /\ now = StartTime
    /\ InitCsrfVars
    /\ codecIn \in CodecInputs
    /\ codecOut = NoOutcome
    /\ InitHmacVars
    /\ ClientIdle

NextCodec == CodecVerify

SpecCodec == InitCodec /\ [][NextCodec]_vars

InitHmac == ServerIdle /\ ClientIdle

NextHmac == HmacRequest \/ NonceCleanup \/ HmacTick

SpecHmac == InitHmac /\ [][NextHmac]_vars

\* one signed request presented again and again while the timer clears the nonce set
NextReplay == ReplayRequest \/ NonceCleanup \/ HmacTick

SpecReplay == InitHmac /\ [][NextReplay]_vars

\* the chat hook over every outcome of the signer, with short streams
InitSigner == ServerIdle /\ InitClientVars /\ cookie \in BOOLEAN /\ wire = <<>>

NextSigner ==
    \/ HandleSubmit
    \/ InitSettles(BOOLEAN)
    \/ FetchSettles(FetchOutcomes)
    \/ ErrorBodySettles
    \/ HookErrorBodySettles
    \/ CookieExpires
    \/ Stop
    \/ ReadFrame(ContentFrames)
    \/ ReadDone
    \/ ReadAborted
    \/ ReadFails

SpecSigner == InitSigner /\ [][NextSigner]_vars

\* several secureRequest calls of one page in flight together
NextCalls ==
    \/ CallStart
    \/ InitResponds
    \/ CallInitSettles
    \/ CallFetchSettles
    \/ CallErrorBodySettles

SpecCalls == InitSigner /\ [][NextCalls]_vars

\* the chat hook over every stream, the server allowing the first attempt
InitStream == ServerIdle /\ InitClientVars /\ cookie = TRUE /\ wire = <<>>

NextStream ==
    \/ HandleSubmit
    \/ FetchSettles({"ok"})
    \/ Stop
    \/ ReadFrame(Frames)
    \/ ReadDone
    \/ ReadAborted
    \/ ReadFails

SpecStream == InitStream /\ [][NextStream]_vars

\* the hook with every function it returns, over streams of content chunks
NextHook ==
    \/ HandleSubmit
    \/ Reload
    \/ ClearMessages
    \/ FetchSettles({"ok", "err"})
    \/ HookErrorBodySettles
    \/ Stop
    \/ ReadFrame(ContentFrames)
    \/ ReadDone
    \/ ReadAborted
    \/ ReadFails

SpecHook == InitStream /\ [][NextHook]_vars

\* one response after another, each an interleaving of such chunks
NextInterleave ==
    \/ HandleSubmit
    \/ FetchSettles({"ok"})
    \/ ReadFrame(InterleavedFrames)
    \/ ReadDone

SpecInterleave == InitStream /\ [][NextInterleave]_vars

\* handleSubmit, reload and stop in any order, requests overlapping
NextOverlap ==
    \/ OverlapSubmit
    \/ OverlapReload
    \/ OverlapStop
    \/ OverlapReadFrame(OverlapFrames)
    \/ OverlapEnds

SpecOverlap == InitStream /\ [][NextOverlap]_vars

\* the same with the exposed setMessages, the replies being plain text
NextExposed ==
    \/ OverlapSubmit
    \/ OverlapReload
    \/ OverlapStop
    \/ OverlapReadFrame({Data(TRUE, <<"a">>, <<>>, FALSE, <<>>)})
    \/ OverlapEnds
    \/ ClearMessages

SpecExposed == InitStream /\ [][NextExposed]_vars

\* the read loop over every body and every way of cutting it into reads
InitLines == ServerIdle /\ InitClientVars /\ cookie = TRUE /\ wire \in Bodies

NextLines == ReadChunk

SpecLines == InitLines /\ [][NextLines]_vars

----------------------------------------------------------------------------
(* Claims *)

CsrfHandled == lastCsrf.out.kind # "none"

\* C1 (as claimed): every request the CSRF-session authenticator does not allow ends
\* with a 403 denial, the session destroyed and both cookies cleared.
C1_EveryFailureClearsSession ==
    (CsrfHandled /\ lastCsrf.out.kind # "allow") =>
        /\ lastCsrf.reply.status = 403
        /\ lastCsrf.reply.destroyed
        /\ lastCsrf.reply.clearedCsrf
        /\ lastCsrf.reply.clearedSid
        /\ ~lastCsrf.sessAfter.present

PresentedSessionToken ==
    CsrfHandled /\ lastCsrf.sess.present /\ lastCsrf.hdr = lastCsrf.sess

\* C7: the token issued at time t and stored in the session, presented in the header,
\* is allowed at every time with now - t <= TOKEN_EXPIRY and denied as expired at
\* every later time.
C7_IssuedTokenValidWithinTtl ==
    PresentedSessionToken =>
        IF lastCsrf.at - lastCsrf.issuedAt <= TOKEN_EXPIRY
        THEN lastCsrf.out = Allow
        ELSE lastCsrf.out = Deny("CSRF token expired", "csrf_expired")

C7_Witness ==
    /\ PresentedSessionToken
    /\ lastCsrf.at - lastCsrf.issuedAt = TOKEN_EXPIRY + 1
    /\ lastCsrf.out.code = "csrf_expired"

CodecTampered == codecOut.kind # "none" /\ codecIn.kind = "tampered"

ReplayVerified == lastHmac.verifyRan /\ lastHmac.replay

\* C3 (as claimed): headers allowed once and presented again before the next clear of
\* the used-nonce set are denied with 'Nonce already used', whenever in the cycle.
C3_ReplayAlwaysNonceReplay ==
    ReplayVerified => lastHmac.out = Deny("Nonce already used", "401")

\* C3 (amended): such a second presentation is always denied; the denial is 'Nonce
\* already used' when the request's timestamp is still within five minutes of the
\* time of the second call (or is not a number), and 'Request timestamp invalid' when
\* it is not.
C3_ReplayAlwaysDenied ==
    ReplayVerified =>
        LET requestTime == ParseInt(lastHmac.req.timestamp)
        IN  IF requestTime # NaN /\ (lastHmac.at - requestTime > MAX_TIMESTAMP_DIFF
                                     \/ requestTime - lastHmac.at > MAX_TIMESTAMP_DIFF)
            THEN lastHmac.out = Deny("Request timestamp invalid", "401")
            ELSE lastHmac.out = Deny("Nonce already used", "401")

C3_Witness ==
    /\ ReplayVerified
    /\ lastHmac.out.error = "Request timestamp invalid"
    /\ lastHmac.req.nonce \in usedNonces

\* C4 (as claimed): the /api/chat handler runs only after verifyRequest has run and
\* returned true, whatever the URL string; a denied request runs no handler code and
\* makes no upstream request.
C4_HandlerOnlyAfterVerify ==
    /\ (lastHmac.route = "chat" /\ lastHmac.handlerRan) =>
            (lastHmac.verifyRan /\ lastHmac.out.kind = "allow")
    /\ (lastHmac.verifyRan /\ lastHmac.out.kind = "deny") =>
            (~lastHmac.handlerRan /\ ~lastHmac.upstream)

\* C2 (secureRequest, as the specification states it): while no abort interferes, one
\* call clears the token cache at most once and sends the original request at most twice.
C2_AtMostOneReauth == ~aborted => (nClears <= 1 /\ nSends <= 2)

\* C5 (as the specification states it): a chat request that stop() aborted while it was
\* in flight, nothing else having failed, finishes with status 'idle' and no error set.
C5_AbortNeverAnError ==
    (stopAt # NotStopped /\ clean /\ pc = Idle) => (status = "idle" /\ error = "null")

StoppedWhileReading == stopAt = <<"H", "read">>

\* C6: after stop() during the read of a stream the message list is the one at the last
\* chunk applied, status is 'idle' and no error is set; no later chunk is applied.
C6_AbortKeepsCommittedMessages ==
    /\ [](StoppedWhileReading =>
             (messages = msgsAtStop /\ status = "idle" /\ error = "null"))
    /\ [][(aborted /\ aborted') => nApplied' = nApplied]_vars

C6_Witness ==
    StoppedWhileReading /\ pc = Idle /\ nApplied >= 2 /\ Len(messages) > Len(respBase)

\* C9: a stream of chunks that carry only non-empty content adds exactly one assistant
\* message to the list as it was after the user message, and after every chunk its
\* content is the concatenation of the deltas so far.
C9_ContentDeltasOneMessage ==
    (pure /\ deltas # <<>>) =>
        messages = Append(respBase, Message("assistant", deltas, <<>>, FALSE, ""))

C9_Witness == pure /\ deltas = <<"a", "b">> /\ Len(respBase) > 1

\* the chunk just applied carries content with a fragment of id, the chunk before it
\* having carried a fragment that opened id
ToolContentStep(id) ==
    /\ pc = <<"H", "read">>
    /\ nApplied' = nApplied + 1
    /\ lastFrame.kind = "data" /\ lastFrame.role = "assistant" /\ lastFrame.hasTools
    /\ \E i \in 1..Len(lastFrame.tools) : lastFrame.tools[i] = id
    /\ id \in accumulator.seen
    /\ LastAgentIndex(messages, id) # 0
    /\ lastFrame'.kind = "data" /\ lastFrame'.role = "assistant"
    /\ lastFrame'.tools = <<id>>
    /\ HasContent(lastFrame')

\* every message but the last agent message of id, and the assistant content, stay
OnlyAgentMessageChanges(id) ==
    /\ Len(messages') = Len(messages)
    /\ \A i \in 1..Len(messages) :
          IF i = LastAgentIndex(messages, id)
          THEN [messages'[i] EXCEPT !.content = <<>>] = [messages[i] EXCEPT !.content = <<>>]
          ELSE messages'[i] = messages[i]
    /\ accumulator'.content = accumulator.content

\* C10 (as the specification states it): the content of such a chunk is appended to the
\* content of the agent message of the tool call, nothing else changing.
C10_ContentAppendedToAgentMessage ==
    [][\A id \in ToolIds :
          ToolContentStep(id) =>
              /\ OnlyAgentMessageChanges(id)
              /\ messages'[LastAgentIndex(messages, id)].content
                     = messages[LastAgentIndex(messages, id)].content \o lastFrame'.content]_vars

\* C10 (amended): the content of such a chunk is appended to the content accumulated for
\* the tool call, which becomes the content of its agent message; nothing else changes.
C10_ContentReplacesLabel ==
    [][\A id \in ToolIds :
          ToolContentStep(id) =>
              /\ OnlyAgentMessageChanges(id)
              /\ accumulator'.toolContent[id]
                     = accumulator.toolContent[id] \o lastFrame'.content
              /\ messages'[LastAgentIndex(messages, id)].content
                     = accumulator'.toolContent[id]]_vars

C10_Witness ==
    /\ nApplied >= 2
    /\ lastFrame = Data(TRUE, <<"a">>, <<>>, TRUE, <<"X">>)
    /\ LastAgentIndex(messages, "X") # 0
    /\ messages[LastAgentIndex(messages, "X")].content = <<"a", "a">>
    /\ accumulator.content = <<>>

\* the fields of the token the last protected request presented
PresentedParts == Split(Base64Decode(lastCsrf.hdr))

\* C11: the CSRF-session authenticator allows a request only if the header token is
\* present, the session holds a token, both are equal, the token has three fields, its
\* signature is the HMAC of 'timestamp:random' under the server secret, and
\* now - timestamp <= TOKEN_EXPIRY.
C11_AllowOnlyIfAllChecksPass ==
    (CsrfHandled /\ lastCsrf.out.kind = "allow") =>
        /\ lastCsrf.hdr.present
        /\ lastCsrf.sess.present
        /\ lastCsrf.hdr.b64 = lastCsrf.sess.b64
        /\ Len(PresentedParts) = 3
        /\ PresentedParts[3]
               = HmacHex(CSRF_SECRET, PresentedParts[1] \o <<":">> \o PresentedParts[2])
        /\ ParseInt(PresentedParts[1]) # NaN
        /\ lastCsrf.at - ParseInt(PresentedParts[1]) <= TOKEN_EXPIRY

C11_Witness ==
    /\ CsrfHandled
    /\ lastCsrf.out.kind = "allow"
    /\ lastCsrf.at - lastCsrf.issuedAt = TOKEN_EXPIRY
    /\ lastCsrf.sessAfter = lastCsrf.sess

\* the reason code the order of the checks fixes for the last protected request, "" when
\* no check fails
FirstFailingCheck ==
    IF ~lastCsrf.hdr.present THEN "csrf_missing"
    ELSE IF ~lastCsrf.sess.present THEN "csrf_invalid"
    ELSE IF lastCsrf.hdr.b64 # lastCsrf.sess.b64 THEN "csrf_mismatch"
    ELSE IF Len(PresentedParts) # 3 THEN "csrf_invalid"
    ELSE IF PresentedParts[3]
                # HmacHex(CSRF_SECRET, PresentedParts[1] \o <<":">> \o PresentedParts[2])
    THEN "csrf_invalid"
    ELSE IF lastCsrf.at - ParseInt(PresentedParts[1]) > TOKEN_EXPIRY THEN "csrf_expired"
    ELSE ""

\* C14 (as the specification states it): a request that fails a check is denied with
\* requiresReauth = true and the reason code of the first failing check, in the order
\* csrf_missing, csrf_invalid (session), csrf_mismatch, csrf_invalid (token), csrf_expired.
C14_CodeOfFirstFailingCheck ==
    (CsrfHandled /\ FirstFailingCheck # "") =>
        /\ lastCsrf.out.kind = "deny"
        /\ lastCsrf.out.code = FirstFailingCheck
        /\ lastCsrf.reply.requiresReauth

\* C12 (as the specification states it): the HMAC authenticator allows a request only
\* if its X-Timestamp is a number within MAX_TIMESTAMP_DIFF of now.
C12_AllowOnlyInsideWindow ==
    (lastHmac.verifyRan /\ lastHmac.out.kind = "allow") =>
        /\ ParseInt(lastHmac.req.timestamp) # NaN
        /\ lastHmac.at - ParseInt(lastHmac.req.timestamp) <= MAX_TIMESTAMP_DIFF
        /\ ParseInt(lastHmac.req.timestamp) - lastHmac.at <= MAX_TIMESTAMP_DIFF

\* C13 (as the specification states it): every request verifyRequest does not allow is
\* answered 401 by verifyRequest returning false; no exception escapes.
C13_EveryFailureIs401 ==
    (lastHmac.verifyRan /\ lastHmac.out.kind # "allow") =>
        (lastHmac.out.kind = "deny" /\ lastHmac.status = 401)

\* C18 (as the specification states it): one signed request (same nonce, timestamp and
\* signature) is allowed at most twice over the whole run.
C18_AtMostOneReplay == \A req \in DOMAIN accepted : accepted[req] <= 2

\* C20: a step of verifyRequest adds the request's nonce to the used-nonce set when it
\* allows the request and leaves the set unchanged otherwise.
C20_NonceAddedIffAllowed ==
    [][lastHmac' # lastHmac =>
          IF lastHmac'.out.kind = "allow"
          THEN usedNonces' = usedNonces \cup {lastHmac'.req.nonce}
          ELSE usedNonces' = usedNonces]_vars

C20_Witness ==
    /\ lastHmac.verifyRan
    /\ lastHmac.out = Deny("Invalid signature", "401")
    /\ lastHmac.req.nonce \notin usedNonces
    /\ Abs(lastHmac.at - ParseInt(lastHmac.req.timestamp)) <= MAX_TIMESTAMP_DIFF

\* C15: a csrf-init stores a freshly issued token in the session and sets the same
\* token in the csrf-token cookie, and a token an earlier csrf-init stored in the same
\* session, if it is not the one stored now, is no longer allowed.
C15_InitMirrorsFreshToken ==
    /\ [][(sessIssuedAt' # sessIssuedAt \/ sessToken' # sessToken) /\ sessToken'.present =>
             /\ cookieCsrf' = sessToken'
             /\ cookieSid'
             /\ \E rand \in Rands : sessToken' = GenerateCSRFToken(now, rand)]_vars
    /\ []((CsrfHandled /\ lastCsrf.prev.present /\ lastCsrf.hdr = lastCsrf.prev
              /\ lastCsrf.prev # lastCsrf.sess)
             => lastCsrf.out.kind = "deny")

C15_Witness ==
    /\ CsrfHandled
    /\ lastCsrf.sess.present
    /\ lastCsrf.prev.present
    /\ lastCsrf.hdr = lastCsrf.prev
    /\ lastCsrf.prev # lastCsrf.sess
    /\ lastCsrf.out = Deny("CSRF token mismatch", "csrf_mismatch")

\* C19: once a request of a session was denied, every later protected request on that
\* session is denied until a csrf-init stores a new token, the one presenting the token
\* stored before the denial included.
C19_DeniedUntilReinit ==
    (CsrfHandled /\ lastCsrf.revoked.present) =>
        (lastCsrf.out.kind = "deny" /\ ~lastCsrf.sess.present)

C19_Witness ==
    /\ CsrfHandled
    /\ lastCsrf.revoked.present
    /\ lastCsrf.hdr = lastCsrf.revoked
    /\ lastCsrf.out = Deny("No CSRF token in session", "csrf_invalid")

InFlight == {k \in 1..Len(inits) : inits[k] = "flight"}

\* C16 (as the specification states it): at every moment at most one /api/csrf-init
\* request is in flight.
C16_OneInitInFlight == Cardinality(InFlight) <= 1

Reauthenticating == {i \in Calls : callPc[i][1] \in {"B", "C"}}

\* C17 (as the specification states it): while a call performs its re-authentication
\* retry the flag isRetrying is true, and no second call is in a retry of its own.
C17_GuardHeldDuringRetry ==
    Reauthenticating # {} => (isRetrying /\ Cardinality(Reauthenticating) = 1)

\* a frame has just been handled by the read loop
FrameStep == pc = <<"H", "read">> /\ nApplied' = nApplied + 1

\* the agent messages of tool call id the response has added to the list
AgentMessagesOf(id) ==
    {i \in (Len(respBase) + 1)..Len(messages) :
        messages[i].role = "agent" /\ messages[i].isTool /\ messages[i].toolId = id}

\* C21 (as the specification states it): while a response is read, the list holds
\* exactly one agent message for every tool-call id seen and none for the others.
C21_OneAgentMessagePerId ==
    pc = <<"H", "read">> =>
        \A id \in ToolIds :
            Cardinality(AgentMessagesOf(id)) = IF id \in accumulator.seen THEN 1 ELSE 0

ContentWithFragments ==
    /\ FrameStep
    /\ ~Skipped(lastFrame') /\ ~IsToolRole(lastFrame')
    /\ lastFrame'.hasTools /\ HasContent(lastFrame')

\* the content accumulated for id grows by the content of the chunk just handled
ContentGoesTo(id) ==
    /\ accumulator'.toolContent[id]
           = (IF id \in accumulator.seen THEN accumulator.toolContent[id] ELSE <<>>)
                 \o lastFrame'.content
    /\ messages'[LastAgentIndex(messages', id)].content = accumulator'.toolContent[id]

AssistantUntouched ==
    /\ accumulator'.content = accumulator.content
    /\ \A i \in 1..Len(messages') :
          IF i <= Len(messages) /\ messages[i].role = "assistant"
          THEN messages'[i] = messages[i]
          ELSE messages'[i].role # "assistant"

\* the id opened last: the one of the last agent message of the list
MostRecentlyOpened(msgs) == msgs[Max({i \in 1..Len(msgs) : msgs[i].role = "agent"})].toolId

\* C22 (as the specification states it): content that comes with tool-call fragments
\* goes to the agent message of the id opened most recently, never to the assistant.
C22_ContentToMostRecentlyOpened ==
    [][(ContentWithFragments /\ accumulator'.seen # {}) =>
          (ContentGoesTo(MostRecentlyOpened(messages')) /\ AssistantUntouched)]_vars

\* C22 (amended): such content goes to the agent message of the id the last fragment of
\* the chunk names, and nowhere when the chunk's fragment list is empty; never to the
\* assistant message.
C22_ContentToLastFragment ==
    [][ContentWithFragments =>
          /\ AssistantUntouched
          /\ IF lastFrame'.tools # <<>>
             THEN ContentGoesTo(lastFrame'.tools[Len(lastFrame'.tools)])
             ELSE messages' = messages /\ accumulator' = accumulator]_vars

C22_Witness ==
    /\ pc = <<"H", "read">>
    /\ lastFrame = Data(TRUE, <<"a">>, <<>>, TRUE, <<"X">>)
    /\ accumulator.seen = {"X", "Y"}
    /\ MostRecentlyOpened(messages) = "Y"
    /\ accumulator.toolContent["X"] = <<"a">>
    /\ accumulator.toolContent["Y"] = <<>>

\* C23 (as the specification states it): the reasoning delta of a chunk without tool
\* calls is appended to the accumulated reasoning, with or without a content delta.
C23_ReasoningAlwaysAccumulated ==
    [][(FrameStep /\ ~Skipped(lastFrame') /\ ~IsToolRole(lastFrame')
           /\ ~lastFrame'.hasTools /\ HasReasoning(lastFrame'))
          => accumulator'.reasoning = accumulator.reasoning \o lastFrame'.reasoning]_vars

\* C24 (as the specification states it): a frame that arrives after the sentinel
\* 'data: [DONE]' does not change the message list.
C24_NothingAfterDone ==
    [][(FrameStep /\ lastFrame.kind = "done") => messages' = messages]_vars

\* C26: a frame of role 'tool' leaves the message list and the accumulator (content,
\* reasoning, seen ids, per-call content) unchanged, whatever else it carries.
C26_ToolRoleIgnored ==
    [][(FrameStep /\ lastFrame'.kind = "data" /\ lastFrame'.role = "tool")
          => (messages' = messages /\ accumulator' = accumulator)]_vars

C26_Witness ==
    /\ pc = <<"H", "read">>
    /\ lastFrame = Frame("data", "tool", TRUE, <<"b">>, <<"r">>, TRUE, <<"Y">>)
    /\ accumulator.seen = {"X"}
    /\ accumulator.content = <<"a">>

\* C27: a frame that cannot be parsed leaves the message list, the accumulator and the
\* status unchanged, so the frames after it are applied as they would be without it.
C27_BadFrameSkipped ==
    [][(FrameStep /\ lastFrame'.kind = "bad")
          => (messages' = messages /\ accumulator' = accumulator /\ status' = status
                 /\ pc' = pc /\ error' = error)]_vars

C27_Witness ==
    /\ pc = <<"H", "read">>
    /\ nApplied >= 3
    /\ lastFrame = Data(TRUE, <<"b">>, <<>>, FALSE, <<>>)
    /\ messages[Len(messages)].content = <<"a", "b">>
    /\ ~pure


\* a chat request has ended on a response that is not ok and is no CSRF denial,
\* nothing having been aborted
EndedOnErrorResponse == pc = Idle /\ ~aborted /\ resp \in {"other403", "err"}

\* C28: status 'idle' or 'error' implies that no response stream is still being read
\* and applied to the message list.
C28_StreamOnlyWhileLoading ==
    status \in {"idle", "error"} => ~(pc = <<"H", "read">> /\ ~aborted)

\* C29: a response that is not ok and not a CSRF denial reaches the hook with its body
\* unread, and the hook ends with status 'error' and the server's details or error field
\* as its error message (in the wording the hook displays a model error with).
C29_ErrorBodyReadable ==
    EndedOnErrorResponse =>
        /\ ~bodyUsed
        /\ status = "error"
        /\ error = DisplayMessage(ServerMessage(resp))

\* C30: a call with a readable cookie token starts its request without an init call; a
\* call without one starts exactly one init call, also when an earlier init has
\* completed; and when that init succeeds and has set the cookie the request is sent next.
C30_LazyInit ==
    [][/\ (nReq' = nReq + 1 /\ cookie) =>
              (nInits' = 0 /\ nSends' = 1 /\ pc' = <<"A", "fetch">>)
       /\ (nReq' = nReq + 1 /\ ~cookie) =>
              (nInits' = 1 /\ nSends' = 0 /\ pc'[2] = "init" /\ initPromise' = "pending")
       /\ (pc[2] = "init" /\ initPromise' = "resolved" /\ cookie') =>
              (nInits' = nInits /\ nSends' = nSends + 1 /\ pc' = <<pc[1], "fetch">>)]_vars

\* the second request of the page, made after a first that was answered and with the
\* cookie gone, is sent after the one init call of the catch block
C30_Witness ==
    /\ pc = <<"C", "fetch">>
    /\ nInits = 1
    /\ nSends = 1
    /\ cookie
    /\ Len(messages) = 3
    /\ messages[2].role = "assistant"


\* C25: however the transport cuts the body into reads, the data lines handed on are
\* those one read of the same bytes hands on; at the end of a newline-terminated body
\* nothing is left in the buffer or in the decoder.
C25_ReadsDoNotMatter ==
    /\ handled = ReadValue(BeforeReading, SubSeq(wire, 1, delivered)).handled
    /\ delivered = Len(wire) => (buffer = <<>> /\ pending = <<>>)

\* a body with a data line was delivered in reads that cut a line and a character
C25_Witness ==
    /\ delivered = Len(wire)
    /\ midLine
    /\ midChar
    /\ \E i \in 1..Len(handled) : handled[i] # <<>>


\* the contents of the assistant messages of a list, joined in list order
RECURSIVE AssistantText(_)
AssistantText(msgs) ==
    IF msgs = <<>> THEN <<>>
    ELSE (IF Head(msgs).role = "assistant" THEN Head(msgs).content ELSE <<>>)
             \o AssistantText(Tail(msgs))

\* C31: over a response of content-only chunks and tool-call chunks, the contents of the
\* assistant messages the response has added, joined in list order, are the content-only
\* deltas joined in arrival order.
C31_EveryDeltaOnce ==
    AssistantText(SubSeq(messages, Len(respBase) + 1, Len(messages))) = deltas


\* C33: the token of the latest csrf-init is allowed when it is presented for the first
\* time within its lifetime, whatever requests with an older token were handled before.
C33_FreshTokenUsable ==
    [][(~freshUsed /\ freshUsed' /\ now - sessIssuedAt <= TOKEN_EXPIRY) =>
           lastCsrf'.out = Allow]_vars


\* C32: the retry that follows a CSRF denial and a successful csrf-init carries the token
\* this csrf-init stored and, sent within the token's lifetime, is allowed by the server:
\* the response secureRequest returns is no CSRF denial.
C32_RetryAllowed ==
    [][(pc = <<"B", "fetch">> /\ pc' # pc /\ now - sessIssuedAt <= TOKEN_EXPIRY) =>
           /\ lastCsrf'.hdr = sessToken
           /\ lastCsrf'.out = Allow
           /\ resp' \in UpstreamOutcomes
           /\ nInits' = nInits /\ nClears' = 1 /\ nSends' = 2]_vars

\* the second chat request found its token expired, was denied, and its retry was
\* answered with the stream
C32_Witness ==
    /\ pc = <<"H", "read">>
    /\ resp = "ok"
    /\ nReq = 2
    /\ nClears = 1 /\ nInits = 1 /\ nSends = 2
    /\ lastCsrf.out = Allow
    /\ sessIssuedAt > StartTime + TOKEN_EXPIRY


\* the request started last
LatestRequest == Max({0} \cup {i \in Requests : reqPc[i] # "idle"})

RequestInFlight(i) == reqPc[i] = "flight"

\* C34: while the request started last is in flight and has not been stopped,
\* abortControllerRef holds its controller and status is 'loading', whatever earlier
\* requests complete meanwhile.
C34_ControllerOfLatestRequest ==
    \A i \in Requests :
        (i = LatestRequest /\ RequestInFlight(i) /\ i \notin ctrlAborted) =>
            (ctrlRef = i /\ status = "loading")


\* a request starts without the list growing: the step of a reload
ReloadStep == nReq' = nReq + 1 /\ Len(messages') <= Len(messages)

\* C35: reload acts only when the list is not empty, status is not 'loading' and a user
\* message exists; it then cuts the list before the last user message, appends that
\* message once, and builds the request history from the list so obtained.
C35_ReloadResendsLastUserMessage ==
    [][ReloadStep =>
           /\ status # "loading"
           /\ \E k \in 1..Len(messages) :
                 /\ messages[k].role = "user"
                 /\ \A j \in (k + 1)..Len(messages) : messages[j].role # "user"
                 /\ messages' = Append(SubSeq(messages, 1, k - 1), messages[k])
           /\ lastBody' = LastOf(FilterMessages(messages'), HistoryLimit)
           /\ status' = "loading"
           /\ error' = "null"]_vars

\* a reload after two turns, the second with a tool call and an answer: the list is cut
\* back to the first turn and the second question, the body leaves the tool call out
C35_Witness ==
    /\ nReq = 3
    /\ Len(messages) = 3
    /\ messages[2].role = "agent"
    /\ messages[3].role = "user"
    /\ Len(lastBody) = 2
    /\ status = "loading"
    /\ nFrames >= 2

\* C36: in every reachable state of the hook, clearMessages included, status
\* 'error' implies that an error is set; status is 'loading' only while a request
\* that has started has not yet completed, been aborted or failed; and a step
\* that starts a request (handleSubmit or reload) leaves error null and status
\* 'loading'
StartStep == nReq' = nReq + 1

C36_ErrorAndLoadingStates ==
    /\ [](status = "error" => error # "null")
    /\ [](status = "loading" => \E i \in Requests : RequestInFlight(i))
    /\ [][StartStep => (error' = "null" /\ status' = "loading")]_vars

\* a second request has failed after the first one ended, and nothing is in flight
C36_Witness ==
    /\ status = "error"
    /\ error = DisplayMessage(NetworkErr.message)
    /\ nReq = 2
    /\ reqPc[1] = "done"
    /\ reqPc[2] = "done"

============================================================================
